---- MODULE Spec2Model ----
(***************************************************************************)
(* Model of fatiando/gravmag/tesseroid.py: the ten field entry points      *)
(* (potential, gx, ..., gzz), _check_input, _convert_coords, _get_engine,  *)
(* _get_density, _dispatcher and _split_arrays.                            *)
(*                                                                         *)
(* Numbers.  Floats are modelled by integers:                              *)
(*   - ratios are counted in tenths (RATIO_G = 1.6 is 16);                 *)
(*   - angles are multiples of 90 degrees, radians are counted in          *)
(*     quarter turns (pi/2), so sin and cos are exact (-1, 0, 1);          *)
(*   - G, SI2MGAL and SI2EOTVOS are imported from ..constants (line 154);  *)
(*     they stand here as small distinct primes so that every product of   *)
(*     them is told apart from every other.                                *)
(* Python's None is the empty tuple <<>>, a present value v is <<v>>.      *)
(***************************************************************************)
EXTENDS Integers, Sequences, FiniteSets, TLC

VARIABLES
    imports,   \* module state after lines 144-152: which names are bound
    call,      \* the caller's arguments of the entry point call (never written)
    pc,        \* position of the entry point: check, branch, map, close, scale, returned, raised
    err,       \* the exception raised out of the entry point ("none" when none)
    field,     \* local `field` of the entry point
    result,    \* local `result` of the entry point
    chunks,    \* local `chunks` (njobs != 1)
    pool,      \* the multiprocessing.Pool: "none", "open", "closed"
    serial,    \* outcome of the in-process _dispatcher run (njobs == 1), or NotRun
    tasks,     \* per chunk: outcome of the worker's _dispatcher run, or NotRun
    ret,       \* the value the entry point returned: None, or <<array>>
    caller,    \* contents of the caller's objects lon, lat, height, model
    shares,    \* the caller's arrays that share memory with local `result`
    sp         \* _split_arrays called on its own: [arrays, extra_args, nparts, out]

vars == <<imports, call, pc, err, field, result, chunks, pool, serial, tasks, ret,
          caller, shares, sp>>

None == <<>>
Some(v) == <<v>>

(***************************************************************************)
(* Bounds of the model.                                                    *)
(***************************************************************************)
MaxPoints == 3      \* longest list of observation points
MaxModel == 2       \* longest tesseroid model
MaxJobs == 2        \* largest njobs
MaxSize == 4        \* longest array handed to _split_arrays on its own
MaxParts == 3       \* largest nparts handed to _split_arrays on its own

(***************************************************************************)
(* Program constants: lines 154-159.                                       *)
(***************************************************************************)
RATIO_V == 10
RATIO_G == 16
RATIO_GG == 80
STACK_SIZE == 500
MEAN_EARTH_RADIUS == 6378137
G == 2
SI2MGAL == 3
SI2EOTVOS == 5

(***************************************************************************)
(* The ten entry points (lines 274-726).  They differ in three places:     *)
(* the `field = '...'` line, the default of `ratio`, and the factor of the *)
(* final `result *= ...`.                                                  *)
(***************************************************************************)
EntryPoints == {"potential", "gx", "gy", "gz", "gxx", "gxy", "gxz", "gyy", "gyz", "gzz"}

\* mutant: gyz was copied from gxz and its field line not changed
FieldOfCopyPaste(fn) == IF fn = "gyz" THEN "gxz" ELSE fn

FieldOf(fn) ==
    CASE fn = "potential" -> "potential"
      [] fn = "gx" -> "gx"
      [] fn = "gy" -> "gy"
      [] fn = "gz" -> "gz"
      [] fn = "gxx" -> "gxx"
      [] fn = "gxy" -> "gxy"
      [] fn = "gxz" -> "gxz"
      [] fn = "gyy" -> "gyy"
      [] fn = "gyz" -> "gyz"
      [] fn = "gzz" -> "gzz"

DefaultRatio(fn) ==
    CASE fn = "potential" -> RATIO_V
      [] fn \in {"gx", "gy", "gz"} -> RATIO_G
      [] fn \in {"gxx", "gxy", "gxz", "gyy", "gyz", "gzz"} -> RATIO_GG

\* mutant: gz was copied from a tensor component and keeps its unit factor
PostFactorCopyPaste(fn) ==
    CASE fn = "potential" -> G
      [] fn \in {"gx", "gy"} -> SI2MGAL * G
      [] fn \in {"gz", "gxx", "gxy", "gxz", "gyy", "gyz", "gzz"} -> SI2EOTVOS * G

PostFactor(fn) ==
    CASE fn = "potential" -> G
      [] fn \in {"gx", "gy", "gz"} -> SI2MGAL * G
      [] fn \in {"gxx", "gxy", "gxz", "gyy", "gyz", "gzz"} -> SI2EOTVOS * G

\* The value of the parameter `ratio` inside the entry point: the caller's, or
\* the default of the def line when the caller passes none.
RatioOf(c) == IF c.ratio = None THEN DefaultRatio(c.fn) ELSE c.ratio[1]

\* result *= factor
Scaled(res, factor) == [i \in 1..Len(res) |-> res[i] * factor]

(***************************************************************************)
(* _check_input (lines 162-171): three assertions, then np.zeros_like(lon).*)
(* Arrays are one-dimensional, so a shape is a length.  `shares` names the *)
(* arguments whose memory the returned array shares: np.zeros_like         *)
(* allocates a new array, so none.                                         *)
(***************************************************************************)
\* mutant: np.ones_like in place of np.zeros_like
ZerosLikeOnes(a) == [i \in 1..Len(a) |-> 1]

ZerosLike(a) == [i \in 1..Len(a) |-> 0]

\* mutant: the assertion on ratio is missing
CheckInputNoRatio(lon, lat, height, model, ratio, njobs) ==
    IF ~(Len(lon) = Len(lat) /\ Len(lat) = Len(height))
    THEN [err |-> "AssertionError: Input coordinate arrays must have same shape",
          result |-> None, shares |-> {}]
    ELSE IF ~(njobs > 0)
    THEN [err |-> "AssertionError: Invalid number of jobs", result |-> None, shares |-> {}]
    ELSE [err |-> "none", result |-> Some(ZerosLike(lon)), shares |-> {}]

CheckInput(lon, lat, height, model, ratio, njobs) ==
    IF ~(Len(lon) = Len(lat) /\ Len(lat) = Len(height))
    THEN [err |-> "AssertionError: Input coordinate arrays must have same shape",
          result |-> None, shares |-> {}]
    ELSE IF ~(ratio > 0)
    THEN [err |-> "AssertionError: Invalid ratio", result |-> None, shares |-> {}]
    ELSE IF ~(njobs > 0)
    THEN [err |-> "AssertionError: Invalid number of jobs", result |-> None, shares |-> {}]
    ELSE [err |-> "none", result |-> Some(ZerosLike(lon)), shares |-> {}]

(***************************************************************************)
(* _convert_coords (lines 174-188).  Degrees are multiples of 90, radians  *)
(* are counted in quarter turns.                                           *)
(***************************************************************************)
Radians(deg) == deg \div 90

Sin(q) == CASE q % 4 = 0 -> 0 [] q % 4 = 1 -> 1 [] q % 4 = 2 -> 0 [] q % 4 = 3 -> -1

Cos(q) == CASE q % 4 = 0 -> 1 [] q % 4 = 1 -> 0 [] q % 4 = 2 -> -1 [] q % 4 = 3 -> 0

ConvertCoords(lon, lat, height) ==
    LET lonr == [i \in 1..Len(lon) |-> Radians(lon[i])]
        latr == [i \in 1..Len(lat) |-> Radians(lat[i])]
        sinlat == [i \in 1..Len(latr) |-> Sin(latr[i])]
        coslat == [i \in 1..Len(latr) |-> Cos(latr[i])]
        radius == [i \in 1..Len(height) |-> MEAN_EARTH_RADIUS + height[i]]
    IN  <<lonr, sinlat, coslat, radius>>

(***************************************************************************)
(* Module imports (lines 144-152) and _get_engine (lines 191-208).         *)
(* `imports` says which names the module body bound.  One try block holds  *)
(* both `import numba` and `from . import _tesseroid_numba`, and its       *)
(* handler sets numba = None: either both names are bound to modules, or   *)
(* numba is None and _tesseroid_numba is unbound.  No statement of the     *)
(* file binds _tesseroid_numpy.                                            *)
(***************************************************************************)
ImportStates ==
    { [numba |-> TRUE, tesseroid_numba |-> TRUE, tesseroid_numpy |-> FALSE],
      [numba |-> FALSE, tesseroid_numba |-> FALSE, tesseroid_numpy |-> FALSE] }

AttributeErrorFotmat == "AttributeError: 'str' object has no attribute 'fotmat'"
NameErrorNumba == "NameError: global name '_tesseroid_numba' is not defined"
NameErrorNumpy == "NameError: global name '_tesseroid_numpy' is not defined"

GetEngine(engine, imp) ==
    LET e == IF engine = "default"
             THEN (IF ~imp.numba THEN "numpy" ELSE "numba")
             ELSE engine
    IN  IF e \notin {"numpy", "numba"}
        \* the assertion fails and its message, "...".fotmat(engine), is evaluated
        THEN [err |-> AttributeErrorFotmat, module |-> None]
        ELSE IF e = "numba"
        THEN (IF imp.tesseroid_numba
              THEN [err |-> "none", module |-> Some("_tesseroid_numba")]
              ELSE [err |-> NameErrorNumba, module |-> None])
        ELSE (IF imp.tesseroid_numpy
              THEN [err |-> "none", module |-> Some("_tesseroid_numpy")]
              ELSE [err |-> NameErrorNumpy, module |-> None])

(***************************************************************************)
(* Model entries and _get_density (lines 211-223).  An entry is None or a  *)
(* tesseroid; a tesseroid's props is a set of <<key, value>> pairs.        *)
(***************************************************************************)
NoneEntry == [kind |-> "None"]
Tesseroid(id, props) == [kind |-> "Tesseroid", id |-> id, props |-> props]

HasProp(tesseroid, key) == \E kv \in tesseroid.props : kv[1] = key
Prop(tesseroid, key) == (CHOOSE kv \in tesseroid.props : kv[1] = key)[2]

\* mutant: the tesseroid's own density wins over the override
GetDensityOwnFirst(tesseroid, dens) ==
    IF tesseroid = NoneEntry THEN None
    ELSE IF ~HasProp(tesseroid, "density") /\ dens = None THEN None
    ELSE IF HasProp(tesseroid, "density") THEN Prop(tesseroid, "density")
    ELSE dens

GetDensity(tesseroid, dens) ==
    IF tesseroid = NoneEntry THEN None
    ELSE IF ~HasProp(tesseroid, "density") /\ dens = None THEN None
    ELSE IF dens # None THEN dens
    ELSE Prop(tesseroid, "density")

(***************************************************************************)
(* The backend modules (_tesseroid_numba, ...) are not part of the file.   *)
(* Each offers one function per field; a call                              *)
(*     func(lon, sinlat, coslat, radius, tesseroid, density, ratio,        *)
(*          STACK_SIZE, result)                                            *)
(* adds to every cell of `result` the contribution of the tesseroid at     *)
(* that cell's point: density times a kernel value fixed by the field, the *)
(* point, the tesseroid and the ratio.                                     *)
(***************************************************************************)
BackendFunctions == EntryPoints

FieldIndex(f) ==
    CASE f = "potential" -> 1 [] f = "gx" -> 2 [] f = "gy" -> 3 [] f = "gz" -> 4
      [] f = "gxx" -> 5 [] f = "gxy" -> 6 [] f = "gxz" -> 7 [] f = "gyy" -> 8
      [] f = "gyz" -> 9 [] f = "gzz" -> 10

Kernel(f, lon, sinlat, coslat, radius, tesseroid, ratio) ==
    1 + ((FieldIndex(f) + 3 * tesseroid.id + 5 * lon + 7 * (sinlat + 1)
          + 11 * (coslat + 1) + 13 * (radius % 10) + ratio) % 17)

Driver(f, lon, sinlat, coslat, radius, tesseroid, density, ratio, stack, res) ==
    [i \in 1..Len(res) |->
        res[i] + density * Kernel(f, lon[i], sinlat[i], coslat[i], radius[i],
                                  tesseroid, ratio)]

(***************************************************************************)
(* A backend call can fail: the adaptive refinement of a tesseroid for a   *)
(* point on or inside it needs more stack entries than the capacity it is  *)
(* given.  The tesseroid with id 3 has the first observation point (height *)
(* HeightAt(1) = 100) on its top surface.  The call then raises; the cells *)
(* of the points before the failing one have been accumulated.             *)
(***************************************************************************)
StackOverflowError == "StackOverflowError: tesseroid stack overflow"

StackNeeded(lon, sinlat, coslat, radius, tesseroid, ratio, stack) ==
    IF tesseroid.id = 3 /\ radius = MEAN_EARTH_RADIUS + 100 THEN stack + 1 ELSE 1

DriverOutcome(f, lon, sinlat, coslat, radius, tesseroid, density, ratio, stack, res) ==
    LET bad == {i \in 1..Len(res) :
                   StackNeeded(lon[i], sinlat[i], coslat[i], radius[i], tesseroid,
                               ratio, stack) > stack}
        all == Driver(f, lon, sinlat, coslat, radius, tesseroid, density, ratio, stack, res)
    IN  IF bad = {} THEN [err |-> "none", result |-> all]
        ELSE LET first == CHOOSE i \in bad : \A j \in bad : i <= j
             IN  [err |-> StackOverflowError,
                  result |-> [i \in 1..Len(res) |-> IF i < first THEN all[i] ELSE res[i]]]

(***************************************************************************)
(* _dispatcher (lines 226-247).  args is the list                          *)
(*   lon, lat, height, result, model, dens, ratio, engine, field.          *)
(* The outcome records the exception ("none" when it returns), the result  *)
(* buffer, and what the run did: whether it converted the coordinates,     *)
(* whether it resolved the engine, the backend calls it made, in order,    *)
(* each with the arguments that are not arrays and the name of the buffer  *)
(* in the output position, and `mem`: the contents, after the run, of the  *)
(* objects the run was handed (lon, lat, height, result, model).           *)
(***************************************************************************)
\* what _convert_coords leaves in the arrays it is given: np.radians, np.sin,
\* np.cos and `+` each return a new array, and lon, lat are rebound locals
AfterConvertInPlace(lon, lat, height) ==
    <<[i \in 1..Len(lon) |-> Radians(lon[i])], [i \in 1..Len(lat) |-> Radians(lat[i])],
      height>>

AfterConvert(lon, lat, height) == <<lon, lat, height>>

\* the buffer in the last position of func(...), the one the backend writes
OutputArg == "result"

\* func(lon, sinlat, coslat, radius, tesseroid, density, ratio, STACK_SIZE, result)
DriverCall(args, coords, func, i, density, acc) ==
    LET tesseroid == args[5][i]
        d == DriverOutcome(func, coords[1], coords[2], coords[3], coords[4], tesseroid,
                           density, args[7], STACK_SIZE, acc.mem[OutputArg])
    IN  [mem |-> [acc.mem EXCEPT ![OutputArg] = d.result],
         calls |-> Append(acc.calls,
                      [func |-> func, entry |-> i, tesseroid |-> tesseroid,
                       density |-> density, ratio |-> args[7],
                       stack |-> STACK_SIZE, writes |-> OutputArg]),
         err |-> d.err]

\* mutant: `break` in place of `continue`
RECURSIVE DispatcherLoopBreak(_, _, _, _, _)
DispatcherLoopBreak(args, coords, func, i, acc) ==
    IF i > Len(args[5]) \/ acc.err # "none" THEN acc
    ELSE LET density == GetDensity(args[5][i], args[6])
         IN  IF density = None
             THEN acc
             ELSE DispatcherLoopBreak(args, coords, func, i + 1,
                      DriverCall(args, coords, func, i, density[1], acc))

\* mutant: the model is walked from its last entry to its first
RECURSIVE DispatcherLoopReversed(_, _, _, _, _)
DispatcherLoopReversed(args, coords, func, i, acc) ==
    IF i > Len(args[5]) \/ acc.err # "none" THEN acc
    ELSE LET j == Len(args[5]) + 1 - i
             density == GetDensity(args[5][j], args[6])
         IN  IF density = None
             THEN DispatcherLoopReversed(args, coords, func, i + 1, acc)
             ELSE DispatcherLoopReversed(args, coords, func, i + 1,
                      DriverCall(args, coords, func, j, density[1], acc))

\* mutant: the backend call sits in a try block whose handler passes
RECURSIVE DispatcherLoopSwallow(_, _, _, _, _)
DispatcherLoopSwallow(args, coords, func, i, acc) ==
    IF i > Len(args[5]) THEN acc
    ELSE LET density == GetDensity(args[5][i], args[6])
         IN  IF density = None
             THEN DispatcherLoopSwallow(args, coords, func, i + 1, acc)
             ELSE DispatcherLoopSwallow(args, coords, func, i + 1,
                      [DriverCall(args, coords, func, i, density[1], acc)
                          EXCEPT !.err = "none"])

\* for tesseroid in model: ...; an exception of func ends the loop
RECURSIVE DispatcherLoop(_, _, _, _, _)
DispatcherLoop(args, coords, func, i, acc) ==
    IF i > Len(args[5]) \/ acc.err # "none" THEN acc
    ELSE LET density == GetDensity(args[5][i], args[6])
         IN  IF density = None
             THEN DispatcherLoop(args, coords, func, i + 1, acc)
             ELSE DispatcherLoop(args, coords, func, i + 1,
                      DriverCall(args, coords, func, i, density[1], acc))

Dispatcher(args, imp) ==
    LET coords == ConvertCoords(args[1], args[2], args[3])
        after == AfterConvert(args[1], args[2], args[3])
        mem == [lon |-> after[1], lat |-> after[2], height |-> after[3],
                result |-> args[4], model |-> args[5]]
        engine == GetEngine(args[8], imp)
    IN  IF engine.err # "none"
        THEN [err |-> engine.err, result |-> mem.result, calls |-> <<>>,
              converted |-> TRUE, module |-> None, mem |-> mem]
        ELSE IF args[9] \notin BackendFunctions
        THEN [err |-> "AttributeError: getattr", result |-> mem.result, calls |-> <<>>,
              converted |-> TRUE, module |-> engine.module, mem |-> mem]
        ELSE LET out == DispatcherLoop(args, coords, args[9], 1,
                                       [mem |-> mem, calls |-> <<>>, err |-> "none"])
             IN  [err |-> out.err, result |-> out.mem.result, calls |-> out.calls,
                  converted |-> TRUE, module |-> engine.module, mem |-> out.mem]

NotRun == [err |-> "notrun", result |-> <<>>, calls |-> <<>>,
           converted |-> FALSE, module |-> None,
           mem |-> [lon |-> <<>>, lat |-> <<>>, height |-> <<>>, result |-> <<>>,
                    model |-> <<>>]]

(***************************************************************************)
(* _split_arrays (lines 250-271).  A Python slice x[low:high] is           *)
(* SubSeq(x, low + 1, high).  strides[-1] of an empty list raises          *)
(* IndexError.                                                             *)
(***************************************************************************)
Slice(x, low, high) == SubSeq(x, low + 1, high)

\* mutant: the last stride ends at nparts*n, not at size
SplitArraysDropsRemainder(arrays, extra_args, nparts) ==
    LET size == Len(arrays[1])
        n == size \div nparts
        strides == [i \in 1..nparts |-> <<(i - 1) * n, i * n>>]
    IN  [err |-> "none",
         chunks |-> [k \in 1..Len(strides) |->
                       [j \in 1..Len(arrays) |->
                           Slice(arrays[j], strides[k][1], strides[k][2])]
                       \o extra_args]]

SplitArrays(arrays, extra_args, nparts) ==
    LET size == Len(arrays[1])
        n == size \div nparts
        strides == [i \in 1..(nparts - 1) |-> <<(i - 1) * n, i * n>>]
    IN  IF Len(strides) = 0
        THEN [err |-> "IndexError: list index out of range", chunks |-> <<>>]
        ELSE LET all == Append(strides, <<strides[Len(strides)][2], size>>)
             IN  [err |-> "none",
                  chunks |-> [k \in 1..Len(all) |->
                                [j \in 1..Len(arrays) |->
                                    Slice(arrays[j], all[k][1], all[k][2])]
                                \o extra_args]]

(***************************************************************************)
(* np.hstack of one-dimensional arrays: their concatenation, in order.     *)
(***************************************************************************)
RECURSIVE Hstack(_)
Hstack(parts) ==
    IF Len(parts) = 0 THEN <<>> ELSE Head(parts) \o Hstack(Tail(parts))

(***************************************************************************)
(* An entry point as a function of its arguments: what it raises or        *)
(* returns (lines 303-316 for potential, the same statements for the       *)
(* others).  pool.map re-raises a worker's exception in the caller.        *)
(***************************************************************************)
EntryPoint(c, imp) ==
    LET ratio == RatioOf(c)
        chk == CheckInput(c.lon, c.lat, c.height, c.model, ratio, c.njobs)
        fld == FieldOf(c.fn)
    IN  IF chk.err # "none" THEN [err |-> chk.err, ret |-> None]
        ELSE IF c.njobs = 1
        THEN LET d == Dispatcher(<<c.lon, c.lat, c.height, chk.result[1], c.model,
                                   c.dens, ratio, c.engine, fld>>, imp)
             IN  IF d.err # "none" THEN [err |-> d.err, ret |-> None]
                 ELSE [err |-> "none",
                       ret |-> Some(Scaled(d.result, PostFactor(c.fn)))]
        ELSE LET sa == SplitArrays(<<c.lon, c.lat, c.height, chk.result[1]>>,
                                   <<c.model, c.dens, ratio, c.engine, fld>>, c.njobs)
                 outs == [w \in 1..Len(sa.chunks) |-> Dispatcher(sa.chunks[w], imp)]
                 bad == {w \in 1..Len(sa.chunks) : outs[w].err # "none"}
             IN  IF sa.err # "none" THEN [err |-> sa.err, ret |-> None]
                 ELSE IF bad # {}
                 THEN [err |-> outs[CHOOSE w \in bad : \A v \in bad : w <= v].err,
                       ret |-> None]
                 ELSE [err |-> "none",
                       ret |-> Some(Scaled(Hstack([w \in 1..Len(outs) |-> outs[w].result]),
                                           PostFactor(c.fn)))]

(***************************************************************************)
(* The calls the model explores.  Observation points are the first n of a  *)
(* fixed list of distinct points; lat or height may be one element longer  *)
(* than lon (a shape mismatch).                                            *)
(***************************************************************************)
LonAt(i) == 90 * (i % 4)
LatAt(i) == 90 * (((i + 1) % 3) - 1)
HeightAt(i) == 100 * i

LonFor(n) == [i \in 1..n |-> LonAt(i)]
LatFor(n) == [i \in 1..n |-> LatAt(i)]
HeightFor(n) == [i \in 1..n |-> HeightAt(i)]

SameShape == {<<LonFor(n), LatFor(n), HeightFor(n)>> : n \in 0..MaxPoints}
Mismatched == {<<LonFor(n), LatFor(n + 1), HeightFor(n)>> : n \in 0..MaxPoints}
              \cup {<<LonFor(n), LatFor(n), HeightFor(n + 1)>> : n \in 0..MaxPoints}

Entries == {NoneEntry, Tesseroid(1, {}), Tesseroid(2, {<<"density", Some(2)>>})}
Models == UNION {[1..k -> Entries] : k \in 0..MaxModel}
ShortModels == {<<>>, <<Tesseroid(2, {<<"density", Some(2)>>})>>}

Densities == {None, Some(0), Some(5)}
Engines == {"default", "numpy", "numba", "cython"}

MkCall(fn, obs, model, dens, ratio, engine, njobs) ==
    [fn |-> fn, lon |-> obs[1], lat |-> obs[2], height |-> obs[3], model |-> model,
     dens |-> dens, ratio |-> ratio, engine |-> engine, njobs |-> njobs]

\* every entry point on every model, density and ratio, run in-process
\* (njobs = 1) and on the largest pool
DataCalls ==
    {MkCall(fn, o, m, d, r, "default", j) :
        fn \in EntryPoints, o \in SameShape, m \in Models, d \in Densities,
        r \in {None, Some(20)}, j \in {1, MaxJobs}}

\* every entry point with every engine selector
EngineCalls ==
    {MkCall(fn, o, m, None, None, e, j) :
        fn \in EntryPoints, o \in SameShape, m \in ShortModels, e \in Engines,
        j \in 1..MaxJobs}

\* every entry point with every shape, ratio and njobs, valid or not
CheckedCalls ==
    {MkCall(fn, o, m, None, r, "default", j) :
        fn \in EntryPoints, o \in SameShape \cup Mismatched, m \in ShortModels,
        r \in {None, Some(-10), Some(0), Some(20)}, j \in -1..MaxJobs}

\* every entry point on models that hold the tesseroid whose refinement
\* overflows the stack at the first observation point
OverflowEntry == Tesseroid(3, {<<"density", Some(2)>>})
OverflowModels ==
    {m \in UNION {[1..k -> {Tesseroid(2, {<<"density", Some(2)>>}), OverflowEntry}] :
                     k \in 1..MaxModel} :
        \E i \in 1..Len(m) : m[i] = OverflowEntry}

OverflowCalls ==
    {MkCall(fn, o, m, None, None, "default", j) :
        fn \in EntryPoints, o \in SameShape, m \in OverflowModels, j \in 1..MaxJobs}

Calls == DataCalls \cup EngineCalls \cup CheckedCalls \cup OverflowCalls

NoSplit == [arrays |-> <<>>, extra_args |-> <<>>, nparts |-> 0,
            out |-> [err |-> "notcalled", chunks |-> <<>>]]

Init ==
    /\ imports \in ImportStates
    /\ call \in Calls
    /\ pc = "check"
    /\ err = "none"
    /\ field = ""
    /\ result = <<>>
    /\ chunks = <<>>
    /\ pool = "none"
    /\ serial = NotRun
    /\ tasks = <<>>
    /\ ret = None
    /\ caller = [lon |-> call.lon, lat |-> call.lat, height |-> call.height,
                 model |-> call.model]
    /\ shares = {}
    /\ sp = NoSplit

(***************************************************************************)
(* The steps of an entry point call (lines 303-316).                       *)
(***************************************************************************)
\* the caller's objects after `res` is written through `result`: an array
\* that shares memory with `result` holds what `result` holds
Written(c, sh, res) ==
    [lon |-> IF "lon" \in sh THEN res ELSE c.lon,
     lat |-> IF "lat" \in sh THEN res ELSE c.lat,
     height |-> IF "height" \in sh THEN res ELSE c.height,
     model |-> c.model]

\* result = _check_input(...); field = '...'
Check ==
    /\ pc = "check"
    /\ LET chk == CheckInput(caller.lon, caller.lat, caller.height, caller.model,
                             RatioOf(call), call.njobs)
       IN  IF chk.err # "none"
           THEN /\ pc' = "raised"
                /\ err' = chk.err
                /\ UNCHANGED <<field, result, shares>>
           ELSE /\ pc' = "branch"
                /\ result' = chk.result[1]
                /\ shares' = chk.shares
                /\ field' = FieldOf(call.fn)
                /\ UNCHANGED err
    /\ UNCHANGED <<imports, call, chunks, pool, serial, tasks, ret, caller, sp>>

\* if njobs == 1: _dispatcher([...]) in the caller's process, writing into result
RunSerial ==
    /\ pc = "branch"
    /\ call.njobs = 1
    /\ LET d == Dispatcher(<<caller.lon, caller.lat, caller.height, result, caller.model,
                             call.dens, RatioOf(call), call.engine, field>>, imports)
       IN  /\ serial' = d
           /\ result' = d.result
           /\ caller' = Written([lon |-> d.mem.lon, lat |-> d.mem.lat,
                                  height |-> d.mem.height, model |-> d.mem.model],
                                 shares, d.result)
           /\ IF d.err # "none"
              THEN pc' = "raised" /\ err' = d.err
              ELSE pc' = "scale" /\ UNCHANGED err
    /\ UNCHANGED <<imports, call, field, chunks, pool, tasks, ret, shares, sp>>

\* else: chunks = _split_arrays(...); pool = multiprocessing.Pool(njobs)
SplitAndPool ==
    /\ pc = "branch"
    /\ call.njobs # 1
    /\ LET sa == SplitArrays(<<caller.lon, caller.lat, caller.height, result>>,
                             <<caller.model, call.dens, RatioOf(call), call.engine, field>>,
                             call.njobs)
       IN  IF sa.err # "none"
           THEN /\ pc' = "raised"
                /\ err' = sa.err
                /\ UNCHANGED <<chunks, pool, tasks>>
           ELSE /\ pc' = "map"
                /\ chunks' = sa.chunks
                /\ pool' = "open"
                /\ tasks' = [w \in 1..Len(sa.chunks) |-> NotRun]
                /\ UNCHANGED err
    /\ UNCHANGED <<imports, call, field, result, serial, ret, caller, shares, sp>>

\* a pool worker runs _dispatcher on chunk w: the chunk is pickled to the
\* worker's process, so the run works on copies and its result is a copy
WorkerRun(w) ==
    /\ pool = "open"
    /\ tasks[w] = NotRun
    /\ tasks' = [tasks EXCEPT ![w] = Dispatcher(chunks[w], imports)]
    /\ UNCHANGED <<imports, call, pc, err, field, result, chunks, pool, serial, ret,
                   caller, shares, sp>>

\* pool.map(...) re-raises the exception of a worker in the caller
MapRaise(w) ==
    /\ pc = "map"
    /\ tasks[w].err \notin {"none", "notrun"}
    /\ pc' = "raised"
    /\ err' = tasks[w].err
    /\ UNCHANGED <<imports, call, field, result, chunks, pool, serial, tasks, ret,
                   caller, shares, sp>>

\* result = np.hstack(pool.map(_dispatcher, chunks))
MapReturn ==
    /\ pc = "map"
    /\ \A w \in 1..Len(tasks) : tasks[w].err = "none"
    /\ result' = Hstack([w \in 1..Len(tasks) |-> tasks[w].result])
    /\ shares' = {}
    /\ pc' = "close"
    /\ UNCHANGED <<imports, call, err, field, chunks, pool, serial, tasks, ret, caller, sp>>

\* pool.close()
PoolClose ==
    /\ pc = "close"
    /\ pool' = "closed"
    /\ pc' = "scale"
    /\ UNCHANGED <<imports, call, err, field, result, chunks, serial, tasks, ret,
                   caller, shares, sp>>

\* result *= factor; return result
ScaleReturn ==
    /\ pc = "scale"
    /\ result' = Scaled(result, PostFactor(call.fn))
    /\ ret' = Some(result')
    /\ caller' = Written(caller, shares, result')
    /\ pc' = "returned"
    /\ UNCHANGED <<imports, call, err, field, chunks, pool, serial, tasks, shares, sp>>

Next ==
    \/ Check
    \/ RunSerial
    \/ SplitAndPool
    \/ \E w \in 1..Len(tasks) : WorkerRun(w)
    \/ \E w \in 1..Len(tasks) : MapRaise(w)
    \/ MapReturn
    \/ PoolClose
    \/ ScaleReturn

Spec == Init /\ [][Next]_vars

(***************************************************************************)
(* _split_arrays on its own: called once on arrays of every size up to     *)
(* MaxSize with every nparts in 1..MaxParts.                               *)
(***************************************************************************)
SplitInputs ==
    {[arrays |-> <<x, ZerosLike(x)>>, extra_args |-> e, nparts |-> p,
      out |-> [err |-> "notcalled", chunks |-> <<>>]] :
        x \in UNION {[1..n -> 0..1] : n \in 0..MaxSize},
        e \in {<<>>, <<"meh">>},
        p \in 1..MaxParts}

InitSplit ==
    /\ imports \in {i \in ImportStates : i.numba}
    /\ call = MkCall("potential", <<<<>>, <<>>, <<>>>>, <<>>, None, None, "default", 1)
    /\ pc = "idle"
    /\ err = "none"
    /\ field = ""
    /\ result = <<>>
    /\ chunks = <<>>
    /\ pool = "none"
    /\ serial = NotRun
    /\ tasks = <<>>
    /\ ret = None
    /\ caller = [lon |-> call.lon, lat |-> call.lat, height |-> call.height,
                 model |-> call.model]
    /\ shares = {}
    /\ sp \in SplitInputs

SplitCall ==
    /\ sp.out.err = "notcalled"
    /\ sp.nparts >= 1
    /\ sp' = [sp EXCEPT !.out = SplitArrays(sp.arrays, sp.extra_args, sp.nparts)]
    /\ UNCHANGED <<imports, call, pc, err, field, result, chunks, pool, serial, tasks, ret,
                   caller, shares>>

NextSplit == SplitCall

SpecSplit == InitSplit /\ [][NextSplit]_vars

(***************************************************************************)
(* Properties.                                                             *)
(***************************************************************************)
Terminal == pc \in {"returned", "raised"}

\* the _dispatcher runs of the call so far: the in-process one and the workers'
Runs == {serial} \cup {tasks[w] : w \in 1..Len(tasks)}
Started == {r \in Runs : r.err # "notrun"}

ShapesDiffer(c) == Len(c.lon) # Len(c.lat) \/ Len(c.lat) # Len(c.height)
InvalidInput(c) == ShapesDiffer(c) \/ RatioOf(c) <= 0 \/ c.njobs <= 0

NonZero(a) == \E i \in 1..Len(a) : a[i] # 0

\* C1: for every entry point, every njobs >= 1 and every list of points, a
\* call returns exactly when the same call with njobs = 1 returns, and the
\* array it returns has one cell per observation point and is the array the
\* njobs = 1 call returns.
C1_ParallelEqualsSerial ==
    (Terminal /\ call.njobs >= 1) =>
        LET one == EntryPoint([call EXCEPT !.njobs = 1], imports)
        IN  /\ (pc = "returned") <=> (one.err = "none")
            /\ pc = "returned" =>
                  /\ ret = one.ret
                  /\ Len(ret[1]) = Len(call.lon)

\* C1 witness: a parallel call on an uneven split returned a non-zero array
C1_Witness ==
    /\ pc = "returned"
    /\ call.njobs = 2
    /\ Len(call.lon) = 3
    /\ \A i \in 1..3 : ret[1][i] # 0

\* C2: a call whose shapes differ, or whose ratio <= 0, or whose njobs <= 0
\* is past its first statement only as a raised assertion: nothing was
\* converted, no engine resolved, no chunk made, no pool created, no driver
\* called, and nothing is returned.
C2_RejectedBeforeAnyWork ==
    (InvalidInput(call) /\ pc # "check" /\ pc # "idle") =>
        /\ pc = "raised"
        /\ err \in {"AssertionError: Input coordinate arrays must have same shape",
                    "AssertionError: Invalid ratio",
                    "AssertionError: Invalid number of jobs"}
        /\ ret = None
        /\ serial = NotRun
        /\ tasks = <<>>
        /\ chunks = <<>>
        /\ pool = "none"

\* C2 witness: a call with valid shapes and njobs and ratio = 0 was rejected
C2_Witness ==
    /\ pc = "raised"
    /\ ~ShapesDiffer(call)
    /\ call.njobs = 2
    /\ call.ratio = Some(0)
    /\ err = "AssertionError: Invalid ratio"

\* an entry the claim calls skipped: None, or a tesseroid with no 'density'
\* property when no override is given
SkippedEntry(e, dens) == e = NoneEntry \/ (~HasProp(e, "density") /\ dens = None)
WithoutSkipped(model, dens) == SelectSeq(model, LAMBDA e : ~SkippedEntry(e, dens))

\* C3: the outcome of a call (what it returns, what it raises) is the
\* outcome of the same call on the model without its None entries and its
\* tesseroids that have neither a 'density' property nor an override, and no
\* run of the dispatcher calls the driver for such an entry.
C3_SkipsContributeZero ==
    /\ Terminal =>
          LET clean == EntryPoint([call EXCEPT !.model = WithoutSkipped(call.model, call.dens)],
                                  imports)
          IN  ret = clean.ret /\ err = clean.err
    /\ \A r \in Started : \A k \in 1..Len(r.calls) :
          ~SkippedEntry(call.model[r.calls[k].entry], call.dens)

\* C3 witness: a call returned a non-zero array for a model with a skipped
\* entry before an evaluated one
C3_Witness ==
    /\ pc = "returned"
    /\ Len(call.model) = 2
    /\ SkippedEntry(call.model[1], call.dens)
    /\ ~SkippedEntry(call.model[2], call.dens)
    /\ NonZero(ret[1])

C5_Superposition ==
    /\ pc = "branch" => result = [i \in 1..Len(call.lon) |-> 0]
    /\ pc = "returned" =>
          \A k \in 0..Len(call.model) :
              LET a == EntryPoint([call EXCEPT !.model = SubSeq(call.model, 1, k)], imports)
                  b == EntryPoint([call EXCEPT !.model =
                                       SubSeq(call.model, k + 1, Len(call.model))], imports)
              IN  /\ a.err = "none" /\ b.err = "none"
                  /\ Len(a.ret[1]) = Len(ret[1]) /\ Len(b.ret[1]) = Len(ret[1])
                  /\ \A i \in 1..Len(ret[1]) : ret[1][i] = a.ret[1][i] + b.ret[1][i]

\* C5 witness: a parallel call returned for a model of two evaluated
\* tesseroids, with a non-zero cell
C5_Witness ==
    /\ pc = "returned"
    /\ call.njobs = 2
    /\ Len(call.model) = 2
    /\ \A w \in 1..Len(tasks) : Len(tasks[w].calls) = 2
    /\ NonZero(ret[1])

\* start of chunk k in the input arrays, were the chunks consecutive slices
RECURSIVE ChunkStart(_, _)
ChunkStart(chs, k) == IF k = 1 THEN 0 ELSE ChunkStart(chs, k - 1) + Len(chs[k - 1][1])

ConsecutiveSlices(arrays, extra_args, nparts, chs) ==
    /\ Len(chs) = nparts
    /\ ChunkStart(chs, nparts + 1) = Len(arrays[1])
    /\ \A k \in 1..Len(chs) :
          LET low == ChunkStart(chs, k)
              high == low + Len(chs[k][1])
          IN  /\ Len(chs[k]) = Len(arrays) + Len(extra_args)
              /\ \A j \in 1..Len(arrays) : chs[k][j] = SubSeq(arrays[j], low + 1, high)
              /\ SubSeq(chs[k], Len(arrays) + 1, Len(chs[k])) = extra_args

\* C6: for every nparts >= 1 and every size >= 0, _split_arrays returns
\* nparts chunks that are consecutive slices of the arrays, disjoint and
\* covering every index once in order, each followed by the extra arguments.
C6_SplitPartitions ==
    sp.out.err # "notcalled" =>
        /\ sp.out.err = "none"
        /\ ConsecutiveSlices(sp.arrays, sp.extra_args, sp.nparts, sp.out.chunks)

\* _split_arrays with nparts >= 2, the only way the entry points call it
SplitPartitionsFromTwo ==
    (sp.out.err # "notcalled" /\ sp.nparts >= 2) =>
        /\ sp.out.err = "none"
        /\ ConsecutiveSlices(sp.arrays, sp.extra_args, sp.nparts, sp.out.chunks)

\* _split_arrays with nparts = 1 raises
SplitOnePartRaises ==
    (sp.out.err # "notcalled" /\ sp.nparts = 1) =>
        sp.out.err = "IndexError: list index out of range"

RecognisedEngines == {"default", "numpy", "numba"}

\* C7: a call with valid arguments and an unrecognised engine selector raises
\* the assertion "Invalid compute module", and no dispatcher run of it calls
\* the driver.
C7_UnknownEngineReported ==
    (call.engine \notin RecognisedEngines /\ ~InvalidInput(call)) =>
        /\ pc = "raised" => err = "AssertionError: Invalid compute module"
        /\ pc # "returned"
        /\ \A r \in Started : r.calls = <<>>

\* what does hold of such a call: it raises, and the driver is not called
UnknownEngineRaises ==
    (call.engine \notin RecognisedEngines /\ ~InvalidInput(call)) =>
        /\ pc = "raised" => err = AttributeErrorFotmat
        /\ pc # "returned"
        /\ \A r \in Started : r.calls = <<>>

\* C8: with a recognised engine selector every dispatcher run resolves a
\* compute module, and the outcome of the call is the outcome of the same
\* call with any other recognised selector, numba importable or not.
C8_EngineDoesNotMatter ==
    (call.engine \in RecognisedEngines /\ ~InvalidInput(call)) =>
        /\ \A r \in Started : r.module # None
        /\ Terminal =>
              \A e \in RecognisedEngines :
                  EntryPoint([call EXCEPT !.engine = e], imports) = [err |-> err, ret |-> ret]

\* the unscaled buffer of a call that got past the dispatcher
Accumulated ==
    IF call.njobs = 1 THEN serial.result
    ELSE Hstack([w \in 1..Len(tasks) |-> tasks[w].result])

\* C9: the array a call returns is the accumulated buffer with every cell
\* multiplied once by G for potential, by G times SI2MGAL for gx, gy, gz, and
\* by G times SI2EOTVOS for the six tensor components, for every njobs.
C9_PostScalingOnce ==
    pc = "returned" =>
        LET factor == CASE call.fn = "potential" -> G
                        [] call.fn \in {"gx", "gy", "gz"} -> G * SI2MGAL
                        [] call.fn \in {"gxx", "gxy", "gxz", "gyy", "gyz", "gzz"} ->
                              G * SI2EOTVOS
        IN  /\ Len(ret[1]) = Len(Accumulated)
            /\ \A i \in 1..Len(ret[1]) : ret[1][i] = factor * Accumulated[i]

\* C9 witness: gz returned a non-zero array from a parallel call
C9_Witness ==
    /\ pc = "returned"
    /\ call.fn = "gz"
    /\ call.njobs = 2
    /\ NonZero(ret[1])

\* C10: every driver call of a dispatcher run is to the backend function
\* named like the entry point, with the caller's ratio or else 1 for
\* potential, 1.6 for gx, gy, gz and 8 for the tensor components (in
\* tenths: 10, 16, 80), and with stack capacity 500.
C10_BackendCallArguments ==
    \A r \in Started : \A k \in 1..Len(r.calls) :
        /\ r.calls[k].func = call.fn
        /\ r.calls[k].ratio =
              (IF call.ratio # None THEN call.ratio[1]
               ELSE CASE call.fn = "potential" -> 10
                      [] call.fn \in {"gx", "gy", "gz"} -> 16
                      [] call.fn \in {"gxx", "gxy", "gxz", "gyy", "gyz", "gzz"} -> 80)
        /\ r.calls[k].stack = 500

\* C10 witness: gyz called the driver with its default ratio
C10_Witness ==
    /\ call.fn = "gyz"
    /\ call.ratio = None
    /\ \E r \in Started : Len(r.calls) > 0

\* the indices of the model entries whose density resolves, in model order
Evaluated(model, dens) ==
    SelectSeq([i \in 1..Len(model) |-> i], LAMBDA i : ~SkippedEntry(model[i], dens))

IsPrefix(s, t) == Len(s) <= Len(t) /\ \A k \in 1..Len(s) : s[k] = t[k]

\* the buffer after the driver calls k.. of run r are applied in turn to res
RECURSIVE ReplayCalls(_, _, _)
ReplayCalls(r, k, res) ==
    IF k > Len(r.calls) THEN res
    ELSE LET coords == ConvertCoords(r.mem.lon, r.mem.lat, r.mem.height)
             c == r.calls[k]
         IN  ReplayCalls(r, k + 1,
                 Driver(c.func, coords[1], coords[2], coords[3], coords[4],
                        c.tesseroid, c.density, c.ratio, c.stack, res))

\* C11: within one _dispatcher run the driver is called exactly once for
\* each model entry whose density resolves to a value, in model order (up to
\* the entry whose call raised, when one did), each call is handed the run's
\* result buffer as its output, and the buffer of a run that completed is
\* the zero buffer with those calls accumulated in turn.
C11_OncePerEntryInOrder ==
    \A r \in Started :
        LET idx == [k \in 1..Len(r.calls) |-> r.calls[k].entry]
            expected == Evaluated(call.model, call.dens)
        IN  /\ IsPrefix(idx, expected)
            /\ r.err = "none" => idx = expected
            /\ \A k \in 1..Len(r.calls) :
                  /\ r.calls[k].tesseroid = call.model[idx[k]]
                  /\ r.calls[k].writes = "result"
            /\ r.err = "none" =>
                  r.result = ReplayCalls(r, 1, [i \in 1..Len(r.result) |-> 0])

\* C11 witness: a worker of a parallel call evaluated both entries of a
\* two-entry model and accumulated a non-zero chunk
C11_Witness ==
    /\ call.njobs = 2
    /\ \E w \in 1..Len(tasks) :
          /\ tasks[w].err = "none"
          /\ Len(tasks[w].calls) = 2
          /\ tasks[w].calls[1].entry = 1
          /\ tasks[w].calls[2].entry = 2
          /\ NonZero(tasks[w].result)

\* the k-th driver call of run r needs, for some point of the run, more
\* stack entries than the capacity it was given
CallOverflows(r, k) ==
    LET coords == ConvertCoords(r.mem.lon, r.mem.lat, r.mem.height)
        c == r.calls[k]
    IN  \E i \in 1..Len(r.mem.lon) :
            StackNeeded(coords[1][i], coords[2][i], coords[3][i], coords[4][i],
                        c.tesseroid, c.ratio, c.stack) > c.stack

Overflowed == {r \in Started : \E k \in 1..Len(r.calls) : CallOverflows(r, k)}

\* C12: a driver call that fails (a stack overflow past the capacity of 500)
\* is the last driver call of its dispatcher run and the run raises that
\* error; the entry point then returns no result, never reaches the scaling
\* or the return, and ends by raising the error, for njobs = 1 and njobs > 1.
C12_DriverFailureAborts ==
    /\ \A r \in Started : \A k \in 1..Len(r.calls) :
          CallOverflows(r, k) => k = Len(r.calls) /\ r.err = StackOverflowError
    /\ \A r \in Started :
          r.err = StackOverflowError => r \in Overflowed /\ call.njobs >= 1
    /\ Overflowed # {} =>
          /\ ret = None
          /\ pc \notin {"close", "scale", "returned"}
          /\ call.njobs = 1 => pc = "raised"
          /\ Terminal => pc = "raised" /\ err = StackOverflowError

\* C12 witness: a parallel call raised the stack overflow of a worker whose
\* run stopped at the first entry of a two-entry model
C12_Witness ==
    /\ pc = "raised"
    /\ err = StackOverflowError
    /\ call.njobs = 2
    /\ Len(call.model) = 2
    /\ \E w \in 1..Len(tasks) :
          /\ tasks[w].err = StackOverflowError
          /\ Len(tasks[w].calls) = 1
          /\ ~SkippedEntry(call.model[2], call.dens)

\* the same for a call with njobs = 1
SerialOverflowRaises ==
    /\ pc = "raised"
    /\ err = StackOverflowError
    /\ call.njobs = 1
    /\ Len(call.model) = 2
    /\ Len(serial.calls) = 1

\* C13: a call that has finished, by returning or by raising, has closed the
\* pool it created, and a call with njobs = 1 never has a pool.
C13_PoolClosedWhenFinished ==
    /\ call.njobs = 1 => pool = "none"
    /\ Terminal => pool \in {"none", "closed"}

\* what holds of the pool: no pool for njobs = 1, and a call that returned
\* had closed its pool (line 314) before the scaling
PoolClosedOnReturn ==
    /\ call.njobs = 1 => pool = "none"
    /\ pc \in {"scale", "returned"} /\ call.njobs > 1 => pool = "closed"

\* a call that raised out of pool.map (line 313) never reaches pool.close()
PoolOpenAfterMapRaise ==
    pc = "raised" /\ call.njobs > 1 /\ chunks # <<>> => pool = "open"

\* run r left the arrays and the model it was handed as they were
LeftAlone(r, lon, lat, height, model) ==
    /\ r.mem.lon = lon
    /\ r.mem.lat = lat
    /\ r.mem.height = height
    /\ r.mem.model = model

\* C14: at every point of a call the caller's lon, lat, height and model hold
\* what was passed in; the result buffer made by _check_input is all zeros
\* and shares memory with none of them; every dispatcher run leaves the
\* arrays and the model it was handed unchanged; and the buffer in the
\* output position of every driver call is the run's result.
C14_InputsUnchanged ==
    /\ caller = [lon |-> call.lon, lat |-> call.lat, height |-> call.height,
                 model |-> call.model]
    /\ shares = {}
    /\ pc = "branch" => result = [i \in 1..Len(call.lon) |-> 0]
    /\ serial.err # "notrun" =>
          LeftAlone(serial, call.lon, call.lat, call.height, call.model)
    /\ \A w \in 1..Len(tasks) :
          tasks[w].err # "notrun" =>
              /\ LeftAlone(tasks[w], chunks[w][1], chunks[w][2], chunks[w][3], chunks[w][5])
              /\ chunks[w][5] = call.model
    /\ \A r \in Started : \A k \in 1..Len(r.calls) : r.calls[k].writes = OutputArg

\* C14 witness: a serial call whose longitudes are not all zero degrees
\* evaluated a tesseroid and returned a non-zero array
C14_Witness ==
    /\ pc = "returned"
    /\ call.njobs = 1
    /\ \E i \in 1..Len(call.lon) : call.lon[i] # 0
    /\ Len(serial.calls) > 0
    /\ NonZero(ret[1])
    /\ caller.lon = call.lon

====
